---------------------------- MODULE Spec2Model ----------------------------
(***************************************************************************)
(* Appointment Management API: the create / list / fetch handlers of       *)
(* routes/appointments.js (printed in README.md), the express-validator    *)
(* chain in front of the create handler, and the SQLite tables of          *)
(* database/db.js the handlers read and write.                             *)
(*                                                                         *)
(* Text is a sequence of one-character strings, so that the validators,   *)
(* SQLite's column affinity and its text ordering are computed character   *)
(* by character.  A JSON value is a tagged record: a number, a string, or  *)
(* an absent field.                                                        *)
(***************************************************************************)
EXTENDS Integers, Sequences, FiniteSets

(***************************************************************************)
(* Characters and text                                                     *)
(***************************************************************************)
Digit == {"0", "1", "2", "3", "4", "5", "6", "7", "8", "9"}

DigitVal(c) ==
  CASE c = "0" -> 0 [] c = "1" -> 1 [] c = "2" -> 2 [] c = "3" -> 3
    [] c = "4" -> 4 [] c = "5" -> 5 [] c = "6" -> 6 [] c = "7" -> 7
    [] c = "8" -> 8 [] c = "9" -> 9

DigitChar(n) ==
  CASE n = 0 -> "0" [] n = 1 -> "1" [] n = 2 -> "2" [] n = 3 -> "3"
    [] n = 4 -> "4" [] n = 5 -> "5" [] n = 6 -> "6" [] n = 7 -> "7"
    [] n = 8 -> "8" [] n = 9 -> "9"

IsDigits(s) == \A i \in 1..Len(s) : s[i] \in Digit

RECURSIVE ParseNat(_)
ParseNat(s) ==
  IF s = <<>> THEN 0
  ELSE 10 * ParseNat(SubSeq(s, 1, Len(s) - 1)) + DigitVal(s[Len(s)])

RECURSIVE NatToText(_)
NatToText(n) ==
  IF n < 10 THEN <<DigitChar(n)>>
  ELSE NatToText(n \div 10) \o <<DigitChar(n % 10)>>

IntToText(n) == IF n < 0 THEN <<"-">> \o NatToText(-n) ELSE NatToText(n)

\* [-+]?[0-9]+ : an optional sign followed by at least one digit
IsSignedDigits(s) ==
  /\ Len(s) >= 1
  /\ IF s[1] \in {"-", "+"}
       THEN Len(s) >= 2 /\ IsDigits(Tail(s))
       ELSE IsDigits(s)

SignedValue(s) ==
  IF s[1] = "-" THEN -ParseNat(Tail(s))
  ELSE IF s[1] = "+" THEN ParseNat(Tail(s))
  ELSE ParseNat(s)

Whitespace == {" "}

RECURSIVE TrimLeft(_)
TrimLeft(s) ==
  IF s # <<>> /\ s[1] \in Whitespace THEN TrimLeft(Tail(s)) ELSE s

RECURSIVE TrimRight(_)
TrimRight(s) ==
  IF s # <<>> /\ s[Len(s)] \in Whitespace
    THEN TrimRight(SubSeq(s, 1, Len(s) - 1))
    ELSE s

Trim(s) == TrimRight(TrimLeft(s))

Repeat(c, n) == [i \in 1..n |-> c]

\* code-unit order of the characters that occur in dates and times
CharCode(c) ==
  CASE c = " " -> 32 [] c = "-" -> 45 [] c = "/" -> 47 [] c = ":" -> 58
    [] c \in Digit -> 48 + DigitVal(c)
    [] OTHER -> 120

RECURSIVE TextLess(_, _)
\* memcmp order of the BINARY collation: a proper prefix sorts first
TextLess(a, b) ==
  IF b = <<>> THEN FALSE
  ELSE IF a = <<>> THEN TRUE
  ELSE IF a[1] # b[1] THEN CharCode(a[1]) < CharCode(b[1])
  ELSE TextLess(Tail(a), Tail(b))

(***************************************************************************)
(* JSON values of a request body                                           *)
(***************************************************************************)
Num(n) == [t |-> "num", n |-> n, s |-> <<>>]
Str(s) == [t |-> "str", n |-> 0, s |-> s]
Absent == [t |-> "none", n |-> 0, s |-> <<>>]

\* express-validator turns the field into a string before a validator or
\* sanitizer sees it; an absent field becomes the empty string
FieldText(v) ==
  IF v.t = "num" THEN IntToText(v.n)
  ELSE IF v.t = "str" THEN v.s
  ELSE <<>>

(***************************************************************************)
(* The validation chain of POST /api/appointments                          *)
(***************************************************************************)
MaxReasonLen == 500

\* isInt({ min: 1 })
IsInt(s) == IsSignedDigits(s) /\ SignedValue(s) >= 1

IsLeap(y) == (y % 4 = 0 /\ y % 100 # 0) \/ y % 400 = 0

DaysIn(y, m) ==
  IF m = 2 THEN (IF IsLeap(y) THEN 29 ELSE 28)
  ELSE IF m \in {4, 6, 9, 11} THEN 30
  ELSE 31

\* isDate() with its default options: YYYY, MM, DD separated by the same
\* delimiter, "/" or "-", and a day that exists in that month
IsDate(s) ==
  /\ Len(s) = 10
  /\ s[5] \in {"/", "-"}
  /\ s[8] = s[5]
  /\ IsDigits(SubSeq(s, 1, 4))
  /\ IsDigits(SubSeq(s, 6, 7))
  /\ IsDigits(SubSeq(s, 9, 10))
  /\ LET y == ParseNat(SubSeq(s, 1, 4))
         m == ParseNat(SubSeq(s, 6, 7))
         d == ParseNat(SubSeq(s, 9, 10))
     IN  m \in 1..12 /\ d \in 1..DaysIn(y, m)

\* ^([0-1]?[0-9]|2[0-3]):[0-5][0-9]$
MatchesTime(s) ==
  \/ /\ Len(s) = 5
     /\ s[1] \in {"0", "1"}
     /\ s[2] \in Digit
     /\ s[3] = ":"
     /\ s[4] \in {"0", "1", "2", "3", "4", "5"}
     /\ s[5] \in Digit
  \/ /\ Len(s) = 4
     /\ s[1] \in Digit
     /\ s[2] = ":"
     /\ s[3] \in {"0", "1", "2", "3", "4", "5"}
     /\ s[4] \in Digit
  \/ /\ Len(s) = 5
     /\ s[1] = "2"
     /\ s[2] \in {"0", "1", "2", "3"}
     /\ s[3] = ":"
     /\ s[4] \in {"0", "1", "2", "3", "4", "5"}
     /\ s[5] \in Digit

\* trim().isLength({ min: 1, max: 500 })
ReasonLengthOk(s) == Len(Trim(s)) >= 1 /\ Len(Trim(s)) <= MaxReasonLen

FieldError(path, msg) == [path |-> path, msg |-> msg]

\* one chain per field, each with a single validator, run for every field
ValidationErrors(b) ==
  (IF IsInt(FieldText(b.PatientId)) THEN <<>>
   ELSE <<FieldError("PatientId", "PatientId must be a positive integer")>>)
  \o
  (IF IsDate(FieldText(b.AppointmentDate)) THEN <<>>
   ELSE <<FieldError("AppointmentDate",
                     "AppointmentDate must be a valid date (YYYY-MM-DD)")>>)
  \o
  (IF MatchesTime(FieldText(b.AppointmentTime)) THEN <<>>
   ELSE <<FieldError("AppointmentTime",
                     "AppointmentTime must be in HH:MM format")>>)
  \o
  (IF ReasonLengthOk(FieldText(b.Reason)) THEN <<>>
   ELSE <<FieldError("Reason",
                     "Reason must be between 1 and 500 characters")>>)

\* the only sanitizer of the chain, trim() on Reason, writes back to req.body
SanitizedBody(b) == [b EXCEPT !.Reason = Str(Trim(FieldText(b.Reason)))]

(***************************************************************************)
(* SQLite values, column affinity and comparison                           *)
(***************************************************************************)
SqlInt(n) == [k |-> "int", n |-> n, s |-> <<>>]
SqlText(s) == [k |-> "text", n |-> 0, s |-> s]

\* node-sqlite3 binds a JS number as a number and a JS string as text
Bind(v) == IF v.t = "num" THEN SqlInt(v.n) ELSE SqlText(v.s)

\* INTEGER / NUMERIC affinity (patient_id INTEGER, id INTEGER, DATE, TIME):
\* text that reads as an integer is converted, any other text is kept
Affinity(x) ==
  IF x.k = "text" /\ IsSignedDigits(x.s) THEN SqlInt(SignedValue(x.s)) ELSE x

\* a comparison with a column of numeric affinity applies it to the operand
SqlEq(col, param) == col = Affinity(param)

\* ORDER BY: integers sort before text, text by the BINARY collation
SqlLess(a, b) ==
  IF a.k = "int" /\ b.k = "int" THEN a.n < b.n
  ELSE IF a.k = "int" THEN TRUE
  ELSE IF b.k = "int" THEN FALSE
  ELSE TextLess(a.s, b.s)

\* a column value as it appears in a JSON response
FromSql(x) == IF x.k = "int" THEN Num(x.n) ELSE Str(x.s)

NoRow == [id |-> 0]

\* the three sample patients of initializeDatabase
SamplePatients ==
  << [id |-> 1, name |-> "John Doe", email |-> "john@example.com",
      phone |-> "555-0101"],
     [id |-> 2, name |-> "Jane Smith", email |-> "jane@example.com",
      phone |-> "555-0102"],
     [id |-> 3, name |-> "Bob Johnson", email |-> "bob@example.com",
      phone |-> "555-0103"] >>

Range(f) == {f[i] : i \in DOMAIN f}

\* SELECT id FROM patients WHERE id = ?
SelectPatient(pats, pid) ==
  LET hit == {p \in Range(pats) : SqlEq(SqlInt(p.id), Bind(pid))}
  IN  IF hit = {} THEN NoRow ELSE [id |-> (CHOOSE p \in hit : TRUE).id]

\* the conflict query comparing the bound values as they are, with no
\* affinity applied: "01" is then no match for 1
SelectConflictUntyped(appts, pid, date, time) ==
  LET hit == {i \in DOMAIN appts :
                /\ appts[i].patient_id = Bind(pid)
                /\ appts[i].appointment_date = Bind(date)
                /\ appts[i].appointment_time = Bind(time)}
  IN  IF hit = {} THEN NoRow
      ELSE [id |-> appts[CHOOSE i \in hit : \A j \in hit : i <= j].id]

\* SELECT id FROM appointments
\*  WHERE patient_id = ? AND appointment_date = ? AND appointment_time = ?
SelectConflict(appts, pid, date, time) ==
  LET hit == {i \in DOMAIN appts :
                /\ SqlEq(appts[i].patient_id, Bind(pid))
                /\ SqlEq(appts[i].appointment_date, Bind(date))
                /\ SqlEq(appts[i].appointment_time, Bind(time))}
  IN  IF hit = {} THEN NoRow
      ELSE [id |-> appts[CHOOSE i \in hit : \A j \in hit : i <= j].id]

\* an identifier that is handed out again once the first has been used
ReusedRowId(seq) == IF seq = 0 THEN 1 ELSE seq

\* id INTEGER PRIMARY KEY AUTOINCREMENT: one more than the largest id ever used
NextRowId(seq) == seq + 1

\* the inserted row were the status column to have no default
NewRowWithoutDefault(id, b) ==
  [id |-> id,
   patient_id |-> Affinity(Bind(b.PatientId)),
   appointment_date |-> Affinity(Bind(b.AppointmentDate)),
   appointment_time |-> Affinity(Bind(b.AppointmentTime)),
   reason |-> Bind(b.Reason),
   status |-> "NULL"]

\* INSERT INTO appointments (patient_id, appointment_date, appointment_time,
\* reason) VALUES (?, ?, ?, ?); status takes its default
NewRow(id, b) ==
  [id |-> id,
   patient_id |-> Affinity(Bind(b.PatientId)),
   appointment_date |-> Affinity(Bind(b.AppointmentDate)),
   appointment_time |-> Affinity(Bind(b.AppointmentTime)),
   reason |-> Bind(b.Reason),
   status |-> "scheduled"]

(***************************************************************************)
(* Responses of the create handler                                         *)
(***************************************************************************)
Response(status, body) == [status |-> status, body |-> body]

ValidationFailed(errors) ==
  Response(400, [error |-> "Validation failed", details |-> errors])

PatientNotFound(pid) ==
  Response(404, [error |-> "Patient not found",
                 message |-> <<"Patient with ID ", FieldText(pid),
                               " does not exist">>])

AppointmentConflict ==
  Response(409, [error |-> "Appointment conflict",
                 message |->
                   "Patient already has an appointment at this date and time"])

Created(id, b) ==
  Response(201, [AppointmentId |-> id,
                 PatientId |-> b.PatientId,
                 AppointmentDate |-> b.AppointmentDate,
                 AppointmentTime |-> b.AppointmentTime,
                 Reason |-> b.Reason,
                 Message |-> "Appointment created successfully"])

CreateFailed ==
  Response(500, [error |-> "Internal server error",
                 message |-> "Failed to create appointment"])

\* the error-handling middleware of server.js, reached when express.json()
\* cannot parse the body
SomethingWentWrong ==
  Response(500, [error |-> "Something went wrong!",
                 message |-> "body parse error"])

\* the handler without its "if (!patient)" test
AfterPatientLookupUnchecked(err, row) ==
  IF err THEN "respond500" ELSE "conflict"

\* the handler without its "if (existingAppointment)" test
AfterConflictLookupUnchecked(err, row) ==
  IF err THEN "respond500" ELSE "insert"

\* the insert callback resolving whether or not it was handed an error
AfterInsertSwallowed(err) == "respond201"

\* what the handler does once a storage call has called back
AfterPatientLookup(err, row) ==
  IF err THEN "respond500"
  ELSE IF row = NoRow THEN "respond404"
  ELSE "conflict"

AfterConflictLookup(err, row) ==
  IF err THEN "respond500"
  ELSE IF row # NoRow THEN "respond409"
  ELSE "insert"

\* the insert callback rejecting whether or not it was handed an error
AfterInsertRejected(err) == "respond500"

AfterInsert(err) == IF err THEN "respond500" ELSE "respond201"

\* what the middleware stack does with an incoming create request
AfterValidation(malformed, errors) ==
  IF malformed THEN "errorMiddleware"
  ELSE IF errors # <<>> THEN "respond400"
  ELSE "patient"

(***************************************************************************)
(* Bounds and the inputs the model draws from                              *)
(***************************************************************************)
NumClients == 2     \* create requests that can be in flight at once
MaxRequests == 2    \* create requests over one behaviour

Clients == 1..NumClients

Date1225 == <<"2", "0", "2", "4", "-", "1", "2", "-", "2", "5">>
Date1224 == <<"2", "0", "2", "4", "-", "1", "2", "-", "2", "4">>
DateSlash == <<"2", "0", "2", "4", "/", "1", "2", "/", "2", "5">>
DateFeb30 == <<"2", "0", "2", "4", "-", "0", "2", "-", "3", "0">>
DateLeap == <<"2", "0", "2", "4", "-", "0", "2", "-", "2", "9">>
DateShort == <<"2", "0", "2", "4", "-", "1", "-", "5">>

Time1030 == <<"1", "0", ":", "3", "0">>
Time0930 == <<"0", "9", ":", "3", "0">>
Time930 == <<"9", ":", "3", "0">>
Time2359 == <<"2", "3", ":", "5", "9">>
Time2400 == <<"2", "4", ":", "0", "0">>
Time1060 == <<"1", "0", ":", "6", "0">>
TimeSeconds == <<"1", "0", ":", "3", "0", ":", "0", "0">>

Checkup == <<"c", "h", "e", "c", "k">>
PaddedCheckup == <<" ">> \o Checkup \o <<" ">>
Flu == <<"f", "l", "u">>

Body(pid, date, time, reason) ==
  [PatientId |-> pid, AppointmentDate |-> date, AppointmentTime |-> time,
   Reason |-> reason]

\* the create requests of the workflow specification: patients 1 and 2 exist,
\* patient 9 does not; PatientId arrives as a JSON number or as a string
WorkflowBodies ==
  { Body(Num(1), Str(Date1225), Str(Time1030), Str(Checkup)),
    Body(Str(<<"0", "1">>), Str(Date1225), Str(Time1030), Str(PaddedCheckup)),
    Body(Num(1), Str(Date1225), Str(Time930), Str(Flu)),
    Body(Num(2), Str(Date1224), Str(Time1030), Str(Flu)),
    Body(Num(9), Str(Date1225), Str(Time1030), Str(Checkup)),
    Body(Num(0), Str(Date1225), Str(Time2400), Absent) }

CreateRequest(malformed, b) == [malformed |-> malformed, body |-> b]

EmptyBody == Body(Absent, Absent, Absent, Absent)

WorkflowRequests ==
  {CreateRequest(FALSE, b) : b \in WorkflowBodies}
    \cup {CreateRequest(TRUE, EmptyBody)}

(***************************************************************************)
(* State                                                                   *)
(***************************************************************************)
VARIABLES
  patients,         \* rows of the patients table, in rowid order
  appointments,     \* rows of the appointments table, in rowid order
  sqlite_sequence,  \* largest appointments.id ever assigned (AUTOINCREMENT)
  pc,               \* per client: where its create handler stands
  req,              \* per client: the request its handler is working on
  history,          \* the create requests answered so far, in response order
  started,          \* number of create requests received so far
  reply,            \* the answer a GET handler is about to send
  vreq,             \* the body handed to the validation chain on its own
  vres,             \* what the validation chain made of vreq
  tables,           \* the tables that exist in the database file
  runs,             \* per call of initializeDatabase: its promise
  queue,            \* the statements of initializeDatabase not yet executed
  listening,        \* app.listen has been called
  uncaught          \* "error" events of statements run without a callback

vars ==
  <<patients, appointments, sqlite_sequence, pc, req, history, started,
    reply, vreq, vres, tables, runs, queue, listening, uncaught>>

storeVars == <<patients, appointments, sqlite_sequence>>
validationVars == <<vreq, vres>>
startupVars == <<tables, runs, queue, listening, uncaught>>

MaxInitRuns == 2    \* calls of initializeDatabase over one behaviour

InitRuns == 1..MaxInitRuns

\* a call of initializeDatabase: the state of the promise it returned, and
\* whether one of its statements met a storage error
InitRun(promise, fault) == [promise |-> promise, fault |-> fault]

NotCalled == InitRun("notCalled", FALSE)
Resolved == InitRun("resolved", FALSE)

\* a statement waiting on the connection: statements issued inside
\* db.serialize are exclusive, one at a time and in the order issued
Statement(r, sql, k, exclusive) ==
  [run |-> r, sql |-> sql, k |-> k, exclusive |-> exclusive]

AllTables == {"patients", "appointments"}

NoRequest ==
  [body |-> EmptyBody, malformed |-> FALSE, errors |-> <<>>, startedAt |-> 0,
   ops |-> <<>>]

NoReply == [kind |-> "none"]
NotValidated == [done |-> FALSE]

Init ==
  /\ patients = SamplePatients
  /\ appointments = <<>>
  /\ sqlite_sequence = 0
  /\ pc = [c \in Clients |-> "idle"]
  /\ req = [c \in Clients |-> NoRequest]
  /\ history = <<>>
  /\ started = 0
  /\ reply = NoReply
  /\ vreq = EmptyBody
  /\ vres = NotValidated
  /\ tables = AllTables
  /\ runs = [r \in InitRuns |-> IF r = 1 THEN Resolved ELSE NotCalled]
  /\ queue = <<>>
  /\ listening = TRUE
  /\ uncaught = 0

\* one storage call of a create handler, as the handler saw it
Op(name, err, found) == [op |-> name, err |-> err, found |-> found]

\* a create request that has been answered
Answered(cur, ops, rowIds, resp) ==
  [body |-> cur.body,
   malformed |-> cur.malformed,
   errors |-> cur.errors,
   startedAt |-> cur.startedAt,
   ops |-> ops,
   inserted |-> rowIds,
   response |-> resp]

\* res.status(...).json(...): the request is answered and its handler ends
Respond(c, cur, ops, rowIds, resp) ==
  /\ history' = Append(history, Answered(cur, ops, rowIds, resp))
  /\ pc' = [pc EXCEPT ![c] = "idle"]
  /\ req' = [req EXCEPT ![c] = NoRequest]

\* the handler awaits its next storage call
Await(c, cur, ops, next) ==
  /\ pc' = [pc EXCEPT ![c] = next]
  /\ req' = [req EXCEPT ![c] = [cur EXCEPT !.ops = ops]]
  /\ UNCHANGED history

(***************************************************************************)
(* POST /api/appointments                                                  *)
(***************************************************************************)
\* body parsing, the validation chain, and the handler up to its first await
Receive(c, r) ==
  /\ listening
  /\ pc[c] = "idle"
  /\ reply = NoReply
  /\ started < MaxRequests
  /\ started' = started + 1
  /\ LET errors == IF r.malformed THEN <<>> ELSE ValidationErrors(r.body)
         next == AfterValidation(r.malformed, errors)
         cur == [body |-> IF r.malformed THEN r.body ELSE SanitizedBody(r.body),
                 malformed |-> r.malformed,
                 errors |-> errors,
                 startedAt |-> Len(history),
                 ops |-> <<>>]
     IN  \/ /\ next = "errorMiddleware"
            /\ Respond(c, cur, <<>>, {}, SomethingWentWrong)
         \/ /\ next = "respond400"
            /\ Respond(c, cur, <<>>, {}, ValidationFailed(errors))
         \/ /\ next = "patient"
            /\ Await(c, cur, <<>>, "patient")
  /\ UNCHANGED <<storeVars, reply, validationVars, startupVars>>

\* db.get("SELECT id FROM patients WHERE id = ?") calls back
PatientLookup(c, err) ==
  /\ pc[c] = "patient"
  /\ reply = NoReply
  /\ LET row == SelectPatient(patients, req[c].body.PatientId)
         ops == Append(req[c].ops, Op("patientLookup", err, row # NoRow))
         next == AfterPatientLookup(err, row)
     IN  \/ /\ next = "respond500"
            /\ Respond(c, req[c], ops, {}, CreateFailed)
         \/ /\ next = "respond404"
            /\ Respond(c, req[c], ops, {},
                       PatientNotFound(req[c].body.PatientId))
         \/ /\ next = "conflict"
            /\ Await(c, req[c], ops, "conflict")
  /\ UNCHANGED <<storeVars, started, reply, validationVars, startupVars>>

\* db.get("SELECT id FROM appointments WHERE patient_id = ? AND ...") calls back
ConflictLookup(c, err) ==
  /\ pc[c] = "conflict"
  /\ reply = NoReply
  /\ LET b == req[c].body
         row == SelectConflict(appointments, b.PatientId, b.AppointmentDate,
                               b.AppointmentTime)
         ops == Append(req[c].ops, Op("conflictLookup", err, row # NoRow))
         next == AfterConflictLookup(err, row)
     IN  \/ /\ next = "respond500"
            /\ Respond(c, req[c], ops, {}, CreateFailed)
         \/ /\ next = "respond409"
            /\ Respond(c, req[c], ops, {}, AppointmentConflict)
         \/ /\ next = "insert"
            /\ Await(c, req[c], ops, "insert")
  /\ UNCHANGED <<storeVars, started, reply, validationVars, startupVars>>

\* db.run("INSERT INTO appointments ...") calls back; this.lastID is the
\* rowid of the row this statement inserted
Insert(c, err) ==
  /\ pc[c] = "insert"
  /\ reply = NoReply
  /\ LET id == NextRowId(sqlite_sequence)
         ops == Append(req[c].ops, Op("insert", err, ~err))
         rowIds == IF err THEN {} ELSE {id}
         next == AfterInsert(err)
     IN  /\ IF err
              THEN UNCHANGED <<appointments, sqlite_sequence>>
              ELSE /\ appointments' =
                        Append(appointments, NewRow(id, req[c].body))
                   /\ sqlite_sequence' = id
         /\ \/ /\ next = "respond500"
               /\ Respond(c, req[c], ops, rowIds, CreateFailed)
            \/ /\ next = "respond201"
               /\ Respond(c, req[c], ops, rowIds, Created(id, req[c].body))
  /\ UNCHANGED <<patients, started, reply, validationVars, startupVars>>

(***************************************************************************)
(* GET /api/appointments and GET /api/appointments/:id                     *)
(***************************************************************************)
\* a query parameter is a string or absent; if (patientId) tests truthiness
Truthy(v) == v.t = "str" /\ v.s # <<>>

ListQuery(patientId, date) == [patientId |-> patientId, date |-> date]

ListQueries ==
  {ListQuery(p, d) :
     p \in {Absent, Str(<<"1">>)},
     d \in {Absent, Str(Date1225)}}

FetchIds == {<<"1">>, <<"0", "2">>, <<"x">>}

\* FROM appointments a JOIN patients p ON a.patient_id = p.id
PatientOf(pats, a) ==
  LET hit == {p \in Range(pats) : a.patient_id = SqlInt(p.id)}
  IN  IF hit = {} THEN NoRow ELSE CHOOSE p \in hit : TRUE

ListRow(a, p) ==
  [AppointmentId |-> a.id,
   PatientId |-> FromSql(a.patient_id),
   AppointmentDate |-> FromSql(a.appointment_date),
   AppointmentTime |-> FromSql(a.appointment_time),
   Reason |-> FromSql(a.reason),
   status |-> a.status,
   PatientName |-> p.name]

\* the WHERE clause the handler builds from the truthy parameters
ListWhere(a, q) ==
  /\ Truthy(q.patientId) => SqlEq(a.patient_id, Bind(q.patientId))
  /\ Truthy(q.date) => SqlEq(a.appointment_date, Bind(q.date))

\* ORDER BY a.appointment_date, a.appointment_time
OrderKeyLess(a, b) ==
  \/ SqlLess(a.appointment_date, b.appointment_date)
  \/ /\ a.appointment_date = b.appointment_date
     /\ SqlLess(a.appointment_time, b.appointment_time)

\* the results db.all may call back with: the joined rows that pass the WHERE
\* clause, in an order the ORDER BY allows (rows with equal keys in any order)
ListResults(pats, appts, q) ==
  LET sel == {i \in DOMAIN appts :
                PatientOf(pats, appts[i]) # NoRow /\ ListWhere(appts[i], q)}
      n == Cardinality(sel)
      orders == {f \in [1..n -> sel] :
                   /\ \A i, j \in 1..n : i # j => f[i] # f[j]
                   /\ \A i, j \in 1..n :
                        i < j => ~OrderKeyLess(appts[f[j]], appts[f[i]])}
  IN  {[k \in 1..n |-> ListRow(appts[f[k]], PatientOf(pats, appts[f[k]]))] :
         f \in orders}

ListFailed ==
  Response(500, [error |-> "Internal server error",
                 message |-> "Failed to fetch appointments"])

List(q, err) ==
  /\ reply = NoReply
  /\ \E rows \in ListResults(patients, appointments, q) :
       reply' = [kind |-> "list", query |-> q,
                 response |-> IF err THEN ListFailed ELSE Response(200, rows)]
  /\ UNCHANGED <<storeVars, pc, req, history, started, validationVars, startupVars>>

\* the fetch query comparing the id column with the bound text as it is,
\* with no affinity applied: no integer id then equals a text
SelectAppointmentUntyped(pats, appts, id) ==
  LET hit == {i \in DOMAIN appts :
                /\ SqlInt(appts[i].id) = SqlText(id)
                /\ PatientOf(pats, appts[i]) # NoRow}
  IN  IF hit = {} THEN NoRow
      ELSE LET a == appts[CHOOSE i \in hit : TRUE]
               p == PatientOf(pats, a)
           IN  [AppointmentId |-> a.id,
                PatientId |-> FromSql(a.patient_id),
                AppointmentDate |-> FromSql(a.appointment_date),
                AppointmentTime |-> FromSql(a.appointment_time),
                Reason |-> FromSql(a.reason),
                status |-> a.status,
                PatientName |-> p.name,
                PatientEmail |-> p.email,
                PatientPhone |-> p.phone]

\* SELECT ... FROM appointments a JOIN patients p ... WHERE a.id = ?
SelectAppointment(pats, appts, id) ==
  LET hit == {i \in DOMAIN appts :
                /\ SqlEq(SqlInt(appts[i].id), SqlText(id))
                /\ PatientOf(pats, appts[i]) # NoRow}
  IN  IF hit = {} THEN NoRow
      ELSE LET a == appts[CHOOSE i \in hit : TRUE]
               p == PatientOf(pats, a)
           IN  [AppointmentId |-> a.id,
                PatientId |-> FromSql(a.patient_id),
                AppointmentDate |-> FromSql(a.appointment_date),
                AppointmentTime |-> FromSql(a.appointment_time),
                Reason |-> FromSql(a.reason),
                status |-> a.status,
                PatientName |-> p.name,
                PatientEmail |-> p.email,
                PatientPhone |-> p.phone]

AppointmentNotFound(id) ==
  Response(404, [error |-> "Appointment not found",
                 message |-> <<"Appointment with ID ", id,
                               " does not exist">>])

FetchFailed ==
  Response(500, [error |-> "Internal server error",
                 message |-> "Failed to fetch appointment"])

AfterFetch(err, row) ==
  IF err THEN "respond500"
  ELSE IF row = NoRow THEN "respond404"
  ELSE "respond200"

Fetch(id, err) ==
  /\ reply = NoReply
  /\ LET row == SelectAppointment(patients, appointments, id)
         next == AfterFetch(err, row)
     IN  reply' = [kind |-> "fetch", id |-> id,
                   response |->
                     IF next = "respond500" THEN FetchFailed
                     ELSE IF next = "respond404" THEN AppointmentNotFound(id)
                     ELSE Response(200, row)]
  /\ UNCHANGED <<storeVars, pc, req, history, started, validationVars, startupVars>>

\* res.json(...) of a GET handler: the answer leaves the server
Send ==
  /\ reply # NoReply
  /\ reply' = NoReply
  /\ UNCHANGED <<storeVars, pc, req, history, started, validationVars, startupVars>>

(***************************************************************************)
(* The workflow specification: concurrent creates, lists and fetches.      *)
(* A GET handler makes one storage call and answers with what it returned; *)
(* it changes nothing, so the steps of other handlers that could run       *)
(* between its storage call and its answer commute with it.  The model     *)
(* keeps the answer in reply for the one state that follows the call.      *)
(***************************************************************************)
Next ==
  \/ \E c \in Clients, r \in WorkflowRequests : Receive(c, r)
  \/ \E c \in Clients, err \in BOOLEAN : PatientLookup(c, err)
  \/ \E c \in Clients, err \in BOOLEAN : ConflictLookup(c, err)
  \/ \E c \in Clients, err \in BOOLEAN : Insert(c, err)
  \/ \E q \in ListQueries, err \in BOOLEAN : List(q, err)
  \/ \E id \in FetchIds, err \in BOOLEAN : Fetch(id, err)
  \/ Send

Spec == Init /\ [][Next]_vars

(***************************************************************************)
(* The validation specification: the chain applied to one body             *)
(***************************************************************************)
ValidationBodies ==
  {Body(p, d, t, r) :
     p \in {Num(1), Num(0), Num(-1), Str(<<"0", "1">>), Str(<<"x">>),
            Str(<<>>), Absent},
     d \in {Str(Date1225), Str(DateSlash), Str(DateFeb30), Str(DateLeap),
            Str(DateShort), Absent},
     t \in {Str(Time1030), Str(Time0930), Str(Time930), Str(Time2359),
            Str(Time2400), Str(Time1060), Str(TimeSeconds), Absent},
     r \in {Str(Checkup), Str(PaddedCheckup), Str(<<" ", " ">>),
            Str(Repeat("x", MaxReasonLen)),
            Str(Repeat("x", MaxReasonLen + 1)), Absent}}

InitValidation ==
  /\ patients = SamplePatients
  /\ appointments = <<>>
  /\ sqlite_sequence = 0
  /\ pc = [c \in Clients |-> "idle"]
  /\ req = [c \in Clients |-> NoRequest]
  /\ history = <<>>
  /\ started = 0
  /\ reply = NoReply
  /\ vreq \in ValidationBodies
  /\ vres = NotValidated
  /\ tables = AllTables
  /\ runs = [r \in InitRuns |-> IF r = 1 THEN Resolved ELSE NotCalled]
  /\ queue = <<>>
  /\ listening = TRUE
  /\ uncaught = 0

Validate ==
  /\ vres = NotValidated
  /\ vres' = [done |-> TRUE,
              errors |-> ValidationErrors(vreq),
              body |-> SanitizedBody(vreq)]
  /\ UNCHANGED <<storeVars, pc, req, history, started, reply, vreq, startupVars>>

NextValidation == Validate

SpecValidation == InitValidation /\ [][NextValidation]_vars

(***************************************************************************)
(* initializeDatabase and the start of the server                          *)
(***************************************************************************)
handlerVars ==
  <<appointments, sqlite_sequence, pc, req, history, started, reply,
    validationVars>>

\* a rejected promise ends the process (process.exit(1) in the catch), and so
\* does the "error" event of a statement that was run without a callback
Alive ==
  /\ uncaught = 0
  /\ \A r \in InitRuns : runs[r].promise # "rejected"

\* resolve and reject settle a pending promise and leave a settled one alone
Settle(run, outcome, fault) ==
  InitRun(IF run.promise = "pending" THEN outcome ELSE run.promise,
          run.fault \/ fault)

\* the row INSERT INTO patients (name, email, phone) stores for sample k
SampleRow(k, id) == [SamplePatients[k] EXCEPT !.id = id]

\* email TEXT UNIQUE
EmailTaken(pats, email) == \E i \in DOMAIN pats : pats[i].email = email

\* a patient stored before the program started
StoredPatient ==
  [id |-> 1, name |-> "Alice Brown", email |-> "alice@example.com",
   phone |-> "555-0100"]

RemoveAt(q, i) == [j \in 1..(Len(q) - 1) |-> IF j < i THEN q[j] ELSE q[j + 1]]

\* an exclusive statement executes when it is the oldest one waiting
NextIs(q, sql) == q # <<>> /\ Head(q).sql = sql

\* statements not issued inside db.serialize run in parallel: any of those
\* ahead of the first exclusive statement may be the next to execute
Runnable(q, i) ==
  /\ i \in DOMAIN q
  /\ \A j \in 1..i : ~q[j].exclusive

\* initializeDatabase(): the three statements issued inside db.serialize.
\* The first call is the program's own; a later one is made by a caller
\* that waited for the promise of the call before it.
CallInitialize(r) ==
  /\ Alive
  /\ runs[r].promise = "notCalled"
  /\ IF r = 1 THEN TRUE ELSE runs[r - 1].promise = "resolved"
  /\ runs' = [runs EXCEPT ![r] = InitRun("pending", FALSE)]
  /\ queue' = queue \o << Statement(r, "createPatients", 0, TRUE),
                          Statement(r, "createAppointments", 0, TRUE),
                          Statement(r, "count", 0, TRUE) >>
  /\ UNCHANGED <<patients, handlerVars, tables, listening, uncaught>>

\* CREATE TABLE IF NOT EXISTS patients, and its callback
CreatePatients(err) ==
  /\ Alive
  /\ NextIs(queue, "createPatients")
  /\ queue' = Tail(queue)
  /\ IF err
       THEN /\ runs' = [runs EXCEPT ![Head(queue).run] = Settle(@, "rejected", TRUE)]
            /\ UNCHANGED tables
       ELSE /\ tables' = tables \cup {"patients"}
            /\ UNCHANGED runs
  /\ UNCHANGED <<patients, handlerVars, listening, uncaught>>

\* CREATE TABLE IF NOT EXISTS appointments, and its callback, which resolves
\* the promise; the server listens once the promise of its call is resolved
CreateAppointments(err) ==
  /\ Alive
  /\ NextIs(queue, "createAppointments")
  /\ queue' = Tail(queue)
  /\ IF err
       THEN /\ runs' = [runs EXCEPT ![Head(queue).run] = Settle(@, "rejected", TRUE)]
            /\ UNCHANGED tables
       ELSE /\ runs' = [runs EXCEPT ![Head(queue).run] = Settle(@, "resolved", FALSE)]
            /\ tables' = tables \cup {"appointments"}
  /\ listening' = (listening \/ runs'[1].promise = "resolved")
  /\ UNCHANGED <<patients, handlerVars, uncaught>>

\* SELECT COUNT(*) as count FROM patients, and its callback, which issues the
\* three INSERTs outside db.serialize when the count is 0
CountPatients(err) ==
  /\ Alive
  /\ NextIs(queue, "count")
  /\ LET r == Head(queue).run
         failed == err \/ "patients" \notin tables
         rest == Tail(queue)
     IN  /\ queue' = IF ~failed /\ Len(patients) = 0
                       THEN rest \o [k \in DOMAIN SamplePatients |->
                                       Statement(r, "insert", k, FALSE)]
                       ELSE rest
         /\ runs' = [runs EXCEPT ![r] = Settle(@, @.promise, err)]
  /\ UNCHANGED <<patients, handlerVars, tables, listening, uncaught>>

\* INSERT INTO patients (name, email, phone) VALUES (?, ?, ?), run with no
\* callback: a failure is emitted as an "error" event nobody listens to
SeedInsert(r, k, err) ==
  /\ Alive
  /\ \E i \in DOMAIN queue :
       /\ Runnable(queue, i)
       /\ queue[i] = Statement(r, "insert", k, FALSE)
       /\ queue' = RemoveAt(queue, i)
  /\ LET failed == \/ err
                   \/ "patients" \notin tables
                   \/ EmailTaken(patients, SamplePatients[k].email)
     IN  /\ runs' = [runs EXCEPT ![r] = Settle(@, @.promise, err)]
         /\ IF failed
              THEN /\ uncaught' = uncaught + 1
                   /\ UNCHANGED patients
              ELSE /\ patients' =
                        Append(patients, SampleRow(k, NextRowId(Len(patients))))
                   /\ UNCHANGED uncaught
  /\ UNCHANGED <<handlerVars, tables, listening>>

\* the create requests sent to a server that has just started
StartupRequests ==
  { CreateRequest(FALSE, Body(Num(1), Str(Date1225), Str(Time1030), Str(Checkup))),
    CreateRequest(FALSE, Body(Num(3), Str(Date1224), Str(Time930), Str(Flu))) }

\* a database file that does not exist yet, or one that holds a patient
InitStartup ==
  /\ patients \in {<<>>, <<StoredPatient>>}
  /\ tables = IF patients = <<>> THEN {} ELSE AllTables
  /\ appointments = <<>>
  /\ sqlite_sequence = 0
  /\ pc = [c \in Clients |-> "idle"]
  /\ req = [c \in Clients |-> NoRequest]
  /\ history = <<>>
  /\ started = 0
  /\ reply = NoReply
  /\ vreq = EmptyBody
  /\ vres = NotValidated
  /\ runs = [r \in InitRuns |-> NotCalled]
  /\ queue = <<>>
  /\ listening = FALSE
  /\ uncaught = 0

NextStartup ==
  \/ \E r \in InitRuns : CallInitialize(r)
  \/ \E err \in BOOLEAN : CreatePatients(err)
  \/ \E err \in BOOLEAN : CreateAppointments(err)
  \/ \E err \in BOOLEAN : CountPatients(err)
  \/ \E r \in InitRuns, k \in DOMAIN SamplePatients, err \in BOOLEAN :
       SeedInsert(r, k, err)
  \/ \E c \in Clients, r \in StartupRequests : Alive /\ Receive(c, r)
  \/ \E c \in Clients : Alive /\ PatientLookup(c, FALSE)
  \/ \E c \in Clients : Alive /\ ConflictLookup(c, FALSE)
  \/ \E c \in Clients : Alive /\ Insert(c, FALSE)

SpecStartup == InitStartup /\ [][NextStartup]_vars

(***************************************************************************)
(* Vocabulary of the properties                                            *)
(***************************************************************************)
\* the patient a validated PatientId refers to
PatientRef(v) == IF v.t = "num" THEN v.n ELSE SignedValue(v.s)

StatusOf(h) == h.response.status

\* the request was parsed and its validationResult was empty
StructurallyValid(h) == ~h.malformed /\ h.errors = <<>>

StorageErrorIn(ops) == \E k \in DOMAIN ops : ops[k].err

OpNames(ops) == [k \in DOMAIN ops |-> ops[k].op]

StepOrder == <<"patientLookup", "conflictLookup", "insert">>

IsPrefix(a, b) == Len(a) <= Len(b) /\ a = SubSeq(b, 1, Len(a))

SameSlot(b1, b2) ==
  /\ PatientRef(b1.PatientId) = PatientRef(b2.PatientId)
  /\ b1.AppointmentDate = b2.AppointmentDate
  /\ b1.AppointmentTime = b2.AppointmentTime

RowTriple(a) == <<a.patient_id, a.appointment_date, a.appointment_time>>

\* C1: no two stored appointments share one (patient, date, time) triple,
\* whatever the interleaving of the create requests.
NoDoubleBooking ==
  \A i, j \in DOMAIN appointments :
    i # j => RowTriple(appointments[i]) # RowTriple(appointments[j])

\* C2: of two create requests for one (patient, date, time), the second
\* received after the first was answered with 201, the second is answered 409
\* and the pair stores exactly one row (the storage calls of the second
\* succeeding).
SequentialDuplicateConflicts ==
  \A i, j \in DOMAIN history :
    ( /\ i < j
      /\ history[j].startedAt >= i
      /\ StructurallyValid(history[i])
      /\ StructurallyValid(history[j])
      /\ SameSlot(history[i].body, history[j].body)
      /\ StatusOf(history[i]) = 201
      /\ ~StorageErrorIn(history[j].ops) )
    => /\ history[j].response = AppointmentConflict
       /\ Cardinality(history[i].inserted \cup history[j].inserted) = 1
       /\ Cardinality({k \in DOMAIN appointments :
                         appointments[k].id \in
                           history[i].inserted \cup history[j].inserted}) = 1

SequentialDuplicateSeen ==
  \E i, j \in DOMAIN history :
    /\ i < j
    /\ history[j].startedAt >= i
    /\ StructurallyValid(history[i])
    /\ StructurallyValid(history[j])
    /\ SameSlot(history[i].body, history[j].body)
    /\ history[i].body.PatientId # history[j].body.PatientId
    /\ StatusOf(history[i]) = 201
    /\ StatusOf(history[j]) = 409

KnownPatient(v) == \E k \in DOMAIN patients : patients[k].id = PatientRef(v)

\* C3: a structurally valid create request for a patient that is not stored
\* never gets past the patient lookup: it is answered 404 with the requested
\* identifier in the message and inserts nothing (the lookup itself
\* succeeding), whatever appointments are stored.
UnknownPatientRejected ==
  /\ \A i \in DOMAIN history :
       ( /\ StructurallyValid(history[i])
         /\ ~KnownPatient(history[i].body.PatientId)
         /\ ~StorageErrorIn(history[i].ops) )
       => /\ history[i].response = PatientNotFound(history[i].body.PatientId)
          /\ StatusOf(history[i]) = 404
          /\ history[i].inserted = {}
          /\ OpNames(history[i].ops) = <<"patientLookup">>
  /\ \A c \in Clients :
       pc[c] \in {"conflict", "insert"} => KnownPatient(req[c].body.PatientId)
  /\ \A k \in DOMAIN appointments :
       \E n \in DOMAIN patients :
         appointments[k].patient_id = SqlInt(patients[n].id)

UnknownPatientSeen ==
  \E i \in DOMAIN history :
    /\ StructurallyValid(history[i])
    /\ ~KnownPatient(history[i].body.PatientId)
    /\ StatusOf(history[i]) = 404
    /\ \E k \in DOMAIN appointments :
         /\ appointments[k].appointment_date =
              Bind(history[i].body.AppointmentDate)
         /\ appointments[k].appointment_time =
              Bind(history[i].body.AppointmentTime)

\* C4: the storage calls of a create request are a prefix of patient
\* lookup, conflict lookup, insert; a request that fails validation makes
\* none, one whose patient lookup fails makes no other, and one whose
\* conflict lookup fails makes no insert.
StepsStopAtFirstFailure ==
  LET Ok(ops) ==
        /\ IsPrefix(OpNames(ops), StepOrder)
        /\ \A k \in DOMAIN ops :
             (ops[k].err \/ (ops[k].op = "patientLookup" /\ ~ops[k].found)
                         \/ (ops[k].op = "conflictLookup" /\ ops[k].found))
             => k = Len(ops)
  IN  /\ \A i \in DOMAIN history :
           /\ Ok(history[i].ops)
           /\ ~StructurallyValid(history[i]) => history[i].ops = <<>>
           /\ StatusOf(history[i]) = 400 => history[i].ops = <<>>
           /\ StatusOf(history[i]) = 404 => Len(history[i].ops) = 1
           /\ StatusOf(history[i]) = 409 => Len(history[i].ops) = 2
           /\ StatusOf(history[i]) = 201 => Len(history[i].ops) = 3
           /\ history[i].inserted # {} =>
                /\ Len(history[i].ops) = 3
                /\ \A k \in 1..3 : ~history[i].ops[k].err
                /\ history[i].ops[1].found
                /\ ~history[i].ops[2].found
      /\ \A c \in Clients :
           /\ Ok(req[c].ops)
           /\ pc[c] = "patient" => Len(req[c].ops) = 0
           /\ pc[c] = "conflict" => Len(req[c].ops) = 1
           /\ pc[c] = "insert" => Len(req[c].ops) = 2
           /\ pc[c] # "idle" => StructurallyValid(req[c])

ConflictStopSeen ==
  \E i, j \in DOMAIN history :
    /\ StatusOf(history[i]) = 201
    /\ StatusOf(history[j]) = 409
    /\ history[j].ops[2].found
    /\ Len(history[j].ops) = 2

\* C5: the identifier a successful create returns is the identifier of the
\* row that request inserted, no two creates return the same identifier, and
\* identifiers grow strictly with every insert.
IdentifiersFreshAndIncreasing ==
  /\ \A i, j \in DOMAIN appointments :
       i < j => appointments[i].id < appointments[j].id
  /\ \A i \in DOMAIN appointments :
       appointments[i].id >= 1 /\ appointments[i].id <= sqlite_sequence
  /\ \A i \in DOMAIN history :
       StatusOf(history[i]) = 201 =>
         /\ history[i].inserted = {history[i].response.body.AppointmentId}
         /\ \E k \in DOMAIN appointments :
              /\ appointments[k] =
                   NewRow(history[i].response.body.AppointmentId,
                          history[i].body)
              /\ \A m \in DOMAIN appointments :
                   appointments[m].id = appointments[k].id => m = k
  /\ \A i, j \in DOMAIN history :
       (i < j /\ StatusOf(history[i]) = 201 /\ StatusOf(history[j]) = 201)
       => history[i].response.body.AppointmentId
            < history[j].response.body.AppointmentId

OverlappingCreatesSeen ==
  /\ Len(appointments) >= 2
  /\ \E i, j \in DOMAIN history :
       /\ i < j
       /\ StatusOf(history[i]) = 201
       /\ StatusOf(history[j]) = 201
       /\ history[j].startedAt < i

(***************************************************************************)
(* The field rules of the specification, section 4.1                       *)
(***************************************************************************)
\* patient reference: parses as an integer >= 1
RulePatientId(v) ==
  \/ v.t = "num" /\ v.n >= 1
  \/ v.t = "str" /\ IsSignedDigits(v.s) /\ SignedValue(v.s) >= 1

\* date: a valid calendar date in YYYY-MM-DD form
RuleDate(v) ==
  /\ v.t = "str"
  /\ Len(v.s) = 10
  /\ v.s[5] = "-"
  /\ v.s[8] = "-"
  /\ \A i \in {1, 2, 3, 4, 6, 7, 9, 10} : v.s[i] \in Digit
  /\ LET y == ParseNat(SubSeq(v.s, 1, 4))
         m == ParseNat(SubSeq(v.s, 6, 7))
         d == ParseNat(SubSeq(v.s, 9, 10))
     IN  m >= 1 /\ m <= 12 /\ d >= 1 /\ d <= DaysIn(y, m)

\* time: HH:MM with HH in 00-23 and MM in 00-59
RuleTime(v) ==
  /\ v.t = "str"
  /\ Len(v.s) = 5
  /\ v.s[3] = ":"
  /\ \A i \in {1, 2, 4, 5} : v.s[i] \in Digit
  /\ ParseNat(SubSeq(v.s, 1, 2)) <= 23
  /\ ParseNat(SubSeq(v.s, 4, 5)) <= 59

\* reason: between 1 and 500 characters once trimmed
RuleReason(v) ==
  /\ v.t = "str"
  /\ Len(Trim(v.s)) \in 1..MaxReasonLen

BrokenFields(b) ==
  (IF RulePatientId(b.PatientId) THEN {} ELSE {"PatientId"})
    \cup (IF RuleDate(b.AppointmentDate) THEN {} ELSE {"AppointmentDate"})
    \cup (IF RuleTime(b.AppointmentTime) THEN {} ELSE {"AppointmentTime"})
    \cup (IF RuleReason(b.Reason) THEN {} ELSE {"Reason"})

ReportedFields(errors) == {errors[k].path : k \in DOMAIN errors}

\* C6: a create request with a missing or malformed field is refused with
\* "Validation failed", and the details name every broken field and no
\* valid one.
EveryBrokenFieldReported ==
  (vres.done /\ BrokenFields(vreq) # {})
    => /\ vres.errors # <<>>
       /\ ReportedFields(vres.errors) = BrokenFields(vreq)
       /\ ValidationFailed(vres.errors).body.error = "Validation failed"

\* C7: every create request received is either still being handled or has
\* been answered exactly once, with 201, 400, 404, 409 or 500; a storage
\* error ends the handler at the call that failed, with 500 and the generic
\* body, and nothing stored.
ExactlyOneResponse ==
  /\ Len(history) + Cardinality({c \in Clients : pc[c] # "idle"}) = started
  /\ \A i \in DOMAIN history :
       /\ StatusOf(history[i]) \in {201, 400, 404, 409, 500}
       /\ StorageErrorIn(history[i].ops) =>
            /\ history[i].response = CreateFailed
            /\ history[i].ops[Len(history[i].ops)].err
            /\ \A k \in 1..(Len(history[i].ops) - 1) : ~history[i].ops[k].err
            /\ history[i].inserted = {}
       /\ (StatusOf(history[i]) = 500 /\ ~history[i].malformed) =>
            StorageErrorIn(history[i].ops)
  /\ \A c \in Clients : ~StorageErrorIn(req[c].ops)

StorageErrorsAnswered ==
  \E i, j \in DOMAIN history :
    /\ i # j
    /\ StatusOf(history[i]) = 500
    /\ StatusOf(history[j]) = 500
    /\ Len(history[i].ops) = 3
    /\ Len(history[j].ops) \in {1, 2}

(***************************************************************************)
(* Dates and times as the values they denote                               *)
(***************************************************************************)
\* days are ordered as (year, month, day), whatever the delimiter
DateValue(v) ==
  ParseNat(SubSeq(v.s, 1, 4)) * 10000
    + ParseNat(SubSeq(v.s, 6, 7)) * 100
    + ParseNat(SubSeq(v.s, 9, 10))

\* minutes since midnight of H:MM or HH:MM
MinuteOfDay(v) ==
  LET colon == CHOOSE i \in 1..Len(v.s) : v.s[i] = ":"
  IN  ParseNat(SubSeq(v.s, 1, colon - 1)) * 60
        + ParseNat(SubSeq(v.s, colon + 1, Len(v.s)))

\* the stored appointments a list query asks for
Asked(q) ==
  {i \in DOMAIN appointments :
     /\ Truthy(q.patientId) =>
          appointments[i].patient_id = SqlInt(ParseNat(q.patientId.s))
     /\ Truthy(q.date) =>
          DateValue(FromSql(appointments[i].appointment_date))
            = DateValue(q.date)}

\* C8: a list returns exactly the stored appointments that match every
\* filter supplied, by date ascending and within a date by time of day
\* ascending.
ListFilteredAndSorted ==
  (reply.kind = "list" /\ reply.response.status = 200)
    => LET rows == reply.response.body
       IN  /\ Len(rows) = Cardinality(Asked(reply.query))
           /\ {rows[k].AppointmentId : k \in DOMAIN rows}
                = {appointments[i].id : i \in Asked(reply.query)}
           /\ \A i, j \in DOMAIN rows :
                i < j =>
                  \/ DateValue(rows[i].AppointmentDate)
                       < DateValue(rows[j].AppointmentDate)
                  \/ /\ DateValue(rows[i].AppointmentDate)
                          = DateValue(rows[j].AppointmentDate)
                     /\ MinuteOfDay(rows[i].AppointmentTime)
                          <= MinuteOfDay(rows[j].AppointmentTime)

\* C9: a fetch by the identifier a successful create returned answers 200
\* with the patient reference, date, time and reason of the create response
\* and the name of that patient (the fetch's storage call succeeding).
FetchReturnsCreated ==
  \A i \in DOMAIN history :
    ( /\ StatusOf(history[i]) = 201
      /\ reply.kind = "fetch"
      /\ reply.response.status # 500
      /\ IsDigits(reply.id)
      /\ reply.id # <<>>
      /\ ParseNat(reply.id) = history[i].response.body.AppointmentId )
    => LET created == history[i].response.body
           fetched == reply.response.body
       IN  /\ reply.response.status = 200
           /\ fetched.AppointmentId = created.AppointmentId
           /\ fetched.PatientId = created.PatientId
           /\ fetched.AppointmentDate = created.AppointmentDate
           /\ fetched.AppointmentTime = created.AppointmentTime
           /\ fetched.Reason = created.Reason
           /\ \E k \in DOMAIN patients :
                /\ patients[k].id = PatientRef(created.PatientId)
                /\ fetched.PatientName = patients[k].name

\* C10: the time field passes validation exactly when it is HH:MM with a
\* two-digit hour 00-23 and a two-digit minute 00-59.
TimeAcceptedIffHHMM ==
  vres.done =>
    (("AppointmentTime" \notin ReportedFields(vres.errors))
       <=> RuleTime(vreq.AppointmentTime))

\* no statement of initializeDatabase met a storage error
NoInitFault == \A r \in InitRuns : ~runs[r].fault

\* sample patient k is stored n times
Copies(k) ==
  Cardinality({i \in DOMAIN patients :
                 patients[i].email = SamplePatients[k].email})

\* the patient table was empty when the program started: patients are never
\* deleted, and the patient of a store that was not empty is no sample
EmptyAtStart == \A i \in DOMAIN patients : patients[i] # StoredPatient

\* C11: initialization run twice against one store, the second call made
\* after the promise of the first resolved and no storage error met, raises
\* no error and, once its statements have executed, leaves each of the three
\* sample patients stored once; a store that held a patient gets no samples.
InitializationIdempotent ==
  (NoInitFault /\ runs[2].promise # "notCalled")
    => /\ uncaught = 0
       /\ (queue = <<>> /\ EmptyAtStart)
            => \A k \in DOMAIN SamplePatients : Copies(k) = 1
       /\ ~EmptyAtStart => patients = <<StoredPatient>>

\* C12: every stored appointment has status "scheduled" and a patient
\* reference that is the id of exactly one stored patient.
AppointmentsWellFormed ==
  \A i \in DOMAIN appointments :
    /\ appointments[i].status = "scheduled"
    /\ Cardinality({k \in DOMAIN patients :
                      SqlInt(patients[k].id) = appointments[i].patient_id}) = 1

\* appointments stored for two patients, one of them named by a string
TwoPatientsBooked ==
  /\ \E i, j \in DOMAIN appointments :
       appointments[i].patient_id # appointments[j].patient_id
  /\ \E i \in DOMAIN history :
       /\ StatusOf(history[i]) = 201
       /\ history[i].body.PatientId.t = "str"

\* the text of a request path names the appointment identifier n
Identifies(text, n) == text # <<>> /\ IsDigits(text) /\ ParseNat(text) = n

\* C13: a fetch whose storage call succeeds is answered 404 with the
\* requested text echoed in the message exactly when no stored appointment
\* has the identifier the text names, and with 200 otherwise; text that names
\* no identifier is answered 404, never with a format error.
FetchNotFoundIffAbsent ==
  (reply.kind = "fetch" /\ reply.response.status # 500)
    => LET absent == \A i \in DOMAIN appointments :
                       ~Identifies(reply.id, appointments[i].id)
       IN  /\ reply.response.status \in {200, 404}
           /\ absent <=> reply.response = AppointmentNotFound(reply.id)
           /\ ~absent <=> reply.response.status = 200

\* text that is no number fetched from a store that holds appointments
OpaqueIdNotFound ==
  /\ reply.kind = "fetch"
  /\ ~IsDigits(reply.id)
  /\ reply.response.status = 404
  /\ appointments # <<>>

\* the step answers a create request with the given status
Answers(status) ==
  /\ Len(history') = Len(history) + 1
  /\ StatusOf(history'[Len(history')]) = status

\* C14: a step changes the tables only as the insert of a create answered
\* 201, which appends one appointment row and leaves the patients and the
\* rows already stored as they were; a list, a fetch and a create answered
\* 400, 404, 409 or 500 change neither table, and every 201 stores its row.
OnlySuccessfulCreateWrites ==
  [][ /\ patients' = patients
      /\ appointments' # appointments
           => /\ Answers(201)
              /\ Len(appointments') = Len(appointments) + 1
              /\ SubSeq(appointments', 1, Len(appointments)) = appointments
              /\ history'[Len(history')].inserted =
                   {appointments'[Len(appointments')].id}
      /\ Answers(201) => appointments' # appointments
      /\ (\E st \in {400, 404, 409, 500} : Answers(st))
           => appointments' = appointments
      /\ reply' # reply => appointments' = appointments
    ]_vars

\* a stored appointment, a refused duplicate of it, and a fetch
ReadsAndRefusalsSeen ==
  /\ reply.kind = "fetch"
  /\ Len(appointments) = 1
  /\ \E i, j \in DOMAIN history :
       /\ StatusOf(history[i]) = 201
       /\ StatusOf(history[j]) = 409

\* the three sample patients are stored
AllSeeded ==
  \A k \in DOMAIN SamplePatients :
    EmailTaken(patients, SamplePatients[k].email)

\* C15: on a store whose patient table was empty and with no storage error,
\* a resolved promise of initializeDatabase means the three sample patients
\* are stored, the server listens only then, and no create request for
\* patient 1 has been answered 404.
SeededWhenResolved ==
  (NoInitFault /\ EmptyAtStart)
    => /\ \A r \in InitRuns : runs[r].promise = "resolved" => AllSeeded
       /\ listening => AllSeeded
       /\ \A i \in DOMAIN history :
            ( /\ StructurallyValid(history[i])
              /\ PatientRef(history[i].body.PatientId) = 1 )
              => StatusOf(history[i]) # 404

=============================================================================
